---- MODULE Spec2Model ----
(***************************************************************************)
(* Model of src/src/usi_i2c_slave.c: an I2C slave built on the AVR USI     *)
(* peripheral.  Two interrupt handlers (start condition, counter overflow) *)
(* drive a six-state protocol engine over a byte register file; the        *)
(* foreground reaches the register file through typed save/read functions. *)
(*                                                                         *)
(* Each handler pass is one atomic step: the AVR runs an ISR with          *)
(* interrupts disabled and the handler holds SCL low while it works.       *)
(***************************************************************************)
EXTENDS Integers, Sequences, FiniteSets, TLC

(* ------------------------------ bounds -------------------------------- *)

\* Number of bus events (start, stop, overflow) in one explored behaviour.
MaxEvents == 13

\* Number of typed-accessor calls in one explored foreground behaviour.
MaxCalls == 2

\* Number of bus events, and of typed-accessor calls, in a behaviour where
\* the handlers interrupt the accessors.
MaxFgEvents == 4
MaxFgCalls == 1

\* Number of bus events in a behaviour that follows a handler into its wait
\* for SCL.
MaxSpinEvents == 7

\* Number of bus events in a behaviour of the bus with unconstrained start
\* and stop detectors.
MaxFreeEvents == 11

(* ------------------------- program constants --------------------------- *)

\* The 7-bit address handed to usi_i2c_slave(dir).
SlaveAddress == 32

Byte == 0 .. 255

\* Address bytes on the wire: 7-bit address, then R/W (1 = master reads).
AddrW == (SlaveAddress * 2) % 256
AddrR == (SlaveAddress * 2 + 1) % 256

\* Bytes the master may clock into the slave.  They serve as address bytes
\* (AddrW, AddrR match; the others do not), pointer bytes and data bytes.
InBytes == {AddrW, AddrR, 255, 3, 171}

\* Register-file contents when the bus becomes active: the zeroed static
\* storage, or contents the application has stored beforehand.
InitRegisters == { [i \in Byte |-> 0], [i \in Byte |-> (3 * i + 1) % 256] }

(* --------------------------- bit arithmetic ---------------------------- *)

RECURSIVE BitOr(_, _)
BitOr(a, b) ==
    IF a = 0 THEN b
    ELSE IF b = 0 THEN a
    ELSE (IF a % 2 = 1 \/ b % 2 = 1 THEN 1 ELSE 0) + 2 * BitOr(a \div 2, b \div 2)

RECURSIVE BitAnd(_, _)
BitAnd(a, b) ==
    IF a = 0 \/ b = 0 THEN 0
    ELSE (IF a % 2 = 1 /\ b % 2 = 1 THEN 1 ELSE 0) + 2 * BitAnd(a \div 2, b \div 2)

(* ------------------------------- state --------------------------------- *)

VARIABLES
    status,     \* static uint8_t status
    rdir,       \* static uint8_t rdir
    ack,        \* static uint8_t ack
    registers,  \* i2c_slave.registers, indexed by a uint8_t
    direction,  \* i2c_slave.direction
    USIDR,      \* USI data (shift) register
    USISR,      \* USI status register: flags sif, oif, pf and the counter cnt
    USIOIE,     \* USICR bit USIOIE: overflow interrupt enabled
    ddrSDA,     \* I2CD bit SDAP: SDA pin is an output
    ddrSCL,     \* I2CD bit SCLP: SCL pin is an output (held low)
    portSDA,    \* I2CP bit SDAP
    out,        \* observation: bytes loaded into USIDR for sending since the
                \* last start handler pass
    nev,        \* number of bus events so far
    ev,         \* kind of the last bus event: "S", "P", "B" (byte), "A" (ACK bit)
    base,       \* register file when the current bus scenario began
    mw,         \* observer of the write scenario
    mr,         \* observer of the read scenario
    mm,         \* observer of the address-mismatch scenario
    ms,         \* observer of the stop-during-write scenario
    pass,       \* observation of the last handler pass: the state it was
                \* entered in, the register index it used, its operations
    ncall,      \* number of typed-accessor calls so far
    call,       \* last typed-accessor call
    prevcall,   \* the call before it
    fg,         \* typed access the foreground is in the middle of
    spin        \* overflow handler waiting in loop_until_bit_is_clear

prog == <<status, rdir, ack, registers, direction, USIDR, USISR, USIOIE,
          ddrSDA, ddrSCL, portSDA, out>>
busobs == <<nev, ev, base, mw, mr, mm, ms, pass>>
apiobs == <<ncall, call, prevcall, fg, spin>>
vars == <<prog, busobs, apiobs>>

\* The program state as one record, the form the handlers below work on.
Cur ==
    [status |-> status, rdir |-> rdir, ack |-> ack, registers |-> registers,
     direction |-> direction, USIDR |-> USIDR, USISR |-> USISR,
     USIOIE |-> USIOIE, ddrSDA |-> ddrSDA, ddrSCL |-> ddrSCL,
     portSDA |-> portSDA, out |-> out]

Becomes(n) ==
    /\ status' = n.status
    /\ rdir' = n.rdir
    /\ ack' = n.ack
    /\ registers' = n.registers
    /\ direction' = n.direction
    /\ USIDR' = n.USIDR
    /\ USISR' = n.USISR
    /\ USIOIE' = n.USIOIE
    /\ ddrSDA' = n.ddrSDA
    /\ ddrSCL' = n.ddrSCL
    /\ portSDA' = n.portSDA
    /\ out' = n.out

(* ------------------------ USISR write semantics ------------------------ *)

\* A write to USISR: the counter takes the written value; a flag is cleared
\* by writing one to it and left alone by writing zero.
UsisrWrite(sr, w) ==
    [sif |-> sr.sif /\ ~w.sif, oif |-> sr.oif /\ ~w.oif,
     pf |-> sr.pf /\ ~w.pf, cnt |-> w.cnt]

\* USISR = ~(USICNT3..0): ones in every flag, zero in the counter.
UsisrClearAll(sr) ==
    UsisrWrite(sr, [sif |-> TRUE, oif |-> TRUE, pf |-> TRUE, cnt |-> 0])

\* USISR = ~USISR & ~(USICNT3..0): ones only in the flags that read zero.
UsisrResetCounter(sr) ==
    UsisrWrite(sr, [sif |-> ~sr.sif, oif |-> ~sr.oif, pf |-> ~sr.pf, cnt |-> 0])

\* USISR |= counter bits: read-modify-write, the flags read are written back.
UsisrOrCnt(sr, bits) ==
    UsisrWrite(sr, [sr EXCEPT !.cnt = BitOr(sr.cnt, bits)])

\* USISR |= (1<<USIOIF)|(1<<USISIF): read-modify-write.
UsisrOrFlags(sr) ==
    UsisrWrite(sr, [sr EXCEPT !.oif = TRUE, !.sif = TRUE])

(* --------------------------- initialisation ---------------------------- *)

\* usi_i2c_slave(dir): pins released, start interrupt only, flags cleared.
usi_i2c_slave(dir, regs) ==
    [status |-> 0, rdir |-> 0, ack |-> 0, registers |-> regs,
     direction |-> dir, USIDR |-> 0,
     USISR |-> [sif |-> FALSE, oif |-> FALSE, pf |-> FALSE, cnt |-> 0],
     USIOIE |-> FALSE, ddrSDA |-> FALSE, ddrSCL |-> FALSE,
     portSDA |-> FALSE, out |-> <<>>]

(* ------------------------- start-event handler ------------------------- *)

\* Variant: the repeated-start branch also clears the pointer, as the stop
\* and NACK branches of the overflow handler do.
USI_START_vect_ResetsPointer(s) ==
    LET h == [s EXCEPT !.USISR.sif = TRUE, !.ddrSCL = TRUE]
        a == IF h.status = 2
             THEN [h EXCEPT !.status = 0, !.rdir = 0]
             ELSE [h EXCEPT !.USIOIE = TRUE, !.USIDR = 0]
    IN  [a EXCEPT !.USISR = UsisrClearAll(a.USISR), !.ddrSCL = FALSE,
                  !.out = <<>>]

\* Variant: the repeated start is looked for in status 3 instead of 2.
USI_START_vect_WrongStatus(s) ==
    LET h == [s EXCEPT !.USISR.sif = TRUE, !.ddrSCL = TRUE]
        a == IF h.status = 3
             THEN [h EXCEPT !.status = 0]
             ELSE [h EXCEPT !.USIOIE = TRUE, !.USIDR = 0]
    IN  [a EXCEPT !.USISR = UsisrClearAll(a.USISR), !.ddrSCL = FALSE,
                  !.out = <<>>]

\* Variant: the overflow interrupt is enabled on the repeated-start branch
\* instead of the other one.
USI_START_vect_EnablesOnRepeat(s) ==
    LET h == [s EXCEPT !.USISR.sif = TRUE, !.ddrSCL = TRUE]
        a == IF h.status = 2
             THEN [h EXCEPT !.status = 0, !.USIOIE = TRUE]
             ELSE [h EXCEPT !.USIDR = 0]
    IN  [a EXCEPT !.USISR = UsisrClearAll(a.USISR), !.ddrSCL = FALSE,
                  !.out = <<>>]

\* ISR(USI_START_vect), entered with the start flag set by the hardware.
USI_START_vect(s) ==
    LET h == [s EXCEPT !.USISR.sif = TRUE, !.ddrSCL = TRUE]
        a == IF h.status = 2
             THEN [h EXCEPT !.status = 0]
             ELSE [h EXCEPT !.USIOIE = TRUE, !.USIDR = 0]
    IN  [a EXCEPT !.USISR = UsisrClearAll(a.USISR), !.ddrSCL = FALSE,
                  !.out = <<>>]

(* ------------------------ overflow-event handler ----------------------- *)

\* Variant: the master's ACK does not advance the pointer.
ReadAckPoll_NoIncrement(s, sda) ==
    IF s.status # 5 THEN s
    ELSE IF sda = 0
    THEN [s EXCEPT !.status = 4, !.ddrSDA = TRUE]
    ELSE [s EXCEPT !.status = 0, !.rdir = 0, !.portSDA = FALSE,
                   !.ddrSDA = FALSE, !.USIOIE = FALSE]

\* Variant: the master's NACK leaves the pointer where it is.
ReadAckPoll_KeepsPointer(s, sda) ==
    IF s.status # 5 THEN s
    ELSE IF sda = 0
    THEN [s EXCEPT !.status = 4, !.ddrSDA = TRUE, !.rdir = (s.rdir + 1) % 256]
    ELSE [s EXCEPT !.status = 0, !.portSDA = FALSE,
                   !.ddrSDA = FALSE, !.USIOIE = FALSE]

\* Variant: the master's NACK leaves the overflow interrupt enabled.
ReadAckPoll_LeavesOverflowOn(s, sda) ==
    IF s.status # 5 THEN s
    ELSE IF sda = 0
    THEN [s EXCEPT !.status = 4, !.ddrSDA = TRUE, !.rdir = (s.rdir + 1) % 256]
    ELSE [s EXCEPT !.status = 0, !.rdir = 0, !.portSDA = FALSE,
                   !.ddrSDA = FALSE]

\* if (status == 5): the master's ACK or NACK, sampled on SDA (sda = 0 is
\* ACK).  Both branches spin until SCL is low, which the master's clock ends.
ReadAckPoll(s, sda) ==
    IF s.status # 5 THEN s
    ELSE IF sda = 0
    THEN [s EXCEPT !.status = 4, !.ddrSDA = TRUE, !.rdir = (s.rdir + 1) % 256]
    ELSE [s EXCEPT !.status = 0, !.rdir = 0, !.portSDA = FALSE,
                   !.ddrSDA = FALSE, !.USIOIE = FALSE]

\* Variant: the ACK of a data byte does not advance the pointer.
AckDispatch_NoIncrement(s) ==
    IF s.status = 3
    THEN LET h == [s EXCEPT !.ddrSCL = TRUE]
             a == IF h.USISR.pf
                  THEN [h EXCEPT !.rdir = 0, !.status = 0, !.USIOIE = FALSE]
                  ELSE [h EXCEPT !.status = 2]
         IN  [a EXCEPT !.ddrSDA = FALSE]
    ELSE IF s.status = 4
    THEN [s EXCEPT !.ddrSCL = TRUE, !.USIDR = s.registers[s.rdir],
                   !.portSDA = TRUE,
                   !.out = Append(s.out, s.registers[s.rdir])]
    ELSE [s EXCEPT !.ddrSCL = TRUE, !.ddrSDA = FALSE]

\* Variant: the stop branch leaves the overflow interrupt enabled.
AckDispatch_StopLeavesOverflowOn(s) ==
    IF s.status = 3
    THEN LET h == [s EXCEPT !.ddrSCL = TRUE]
             a == IF h.USISR.pf
                  THEN [h EXCEPT !.rdir = 0, !.status = 0]
                  ELSE [h EXCEPT !.status = 2, !.rdir = (h.rdir + 1) % 256]
         IN  [a EXCEPT !.ddrSDA = FALSE]
    ELSE IF s.status = 4
    THEN [s EXCEPT !.ddrSCL = TRUE, !.USIDR = s.registers[s.rdir],
                   !.portSDA = TRUE,
                   !.out = Append(s.out, s.registers[s.rdir])]
    ELSE [s EXCEPT !.ddrSCL = TRUE, !.ddrSDA = FALSE]

\* if (status == 3) ... else if (status == 4) ... else ...
AckDispatch(s) ==
    IF s.status = 3
    THEN LET h == [s EXCEPT !.ddrSCL = TRUE]
             a == IF h.USISR.pf
                  THEN [h EXCEPT !.rdir = 0, !.status = 0, !.USIOIE = FALSE]
                  ELSE [h EXCEPT !.status = 2, !.rdir = (h.rdir + 1) % 256]
         IN  [a EXCEPT !.ddrSDA = FALSE]
    ELSE IF s.status = 4
    THEN [s EXCEPT !.ddrSCL = TRUE, !.USIDR = s.registers[s.rdir],
                   !.portSDA = TRUE,
                   !.out = Append(s.out, s.registers[s.rdir])]
    ELSE [s EXCEPT !.ddrSCL = TRUE, !.ddrSDA = FALSE]

\* The if (ack) branch of ISR(USI_OVF_vect).
AckPass(s, sda) ==
    LET a == AckDispatch(ReadAckPoll(s, sda))
    IN  [a EXCEPT !.ack = 0, !.USISR = UsisrClearAll(a.USISR)]

\* Variant: the pointer byte is taken without arming the ACK.
ByteDispatch_NoAckOnPointer(s, b) ==
    IF s.status = 0
    THEN LET wrrd == b % 2
             dire == b \div 2
         IN  IF dire = s.direction
             THEN [s EXCEPT !.status = IF wrrd = 1 THEN 4 ELSE (s.status + 1) % 256,
                            !.ddrSDA = TRUE, !.ack = 1]
             ELSE s
    ELSE IF s.status = 1
    THEN [s EXCEPT !.rdir = b, !.status = (s.status + 1) % 256]
    ELSE IF s.status = 2
    THEN [s EXCEPT !.registers[s.rdir] = b, !.ddrSDA = TRUE, !.ack = 1,
                   !.status = (s.status + 1) % 256]
    ELSE IF s.status = 4
    THEN [s EXCEPT !.USISR = UsisrOrCnt(s.USISR, 1), !.ddrSDA = FALSE,
                   !.ack = 1, !.status = (s.status + 1) % 256]
    ELSE s

\* Variant: the data byte is stored without arming the ACK.
ByteDispatch_NoAckOnData(s, b) ==
    IF s.status = 0
    THEN LET wrrd == b % 2
             dire == b \div 2
         IN  IF dire = s.direction
             THEN [s EXCEPT !.status = IF wrrd = 1 THEN 4 ELSE (s.status + 1) % 256,
                            !.ddrSDA = TRUE, !.ack = 1]
             ELSE s
    ELSE IF s.status = 1
    THEN [s EXCEPT !.rdir = b, !.ddrSDA = TRUE, !.ack = 1,
                   !.status = (s.status + 1) % 256]
    ELSE IF s.status = 2
    THEN [s EXCEPT !.registers[s.rdir] = b, !.ddrSDA = TRUE,
                   !.status = (s.status + 1) % 256]
    ELSE IF s.status = 4
    THEN [s EXCEPT !.USISR = UsisrOrCnt(s.USISR, 1), !.ddrSDA = FALSE,
                   !.ack = 1, !.status = (s.status + 1) % 256]
    ELSE s

\* The status dispatch of the else branch; b is the byte in USIDR.
ByteDispatch(s, b) ==
    IF s.status = 0
    THEN LET wrrd == b % 2
             dire == b \div 2
         IN  IF dire = s.direction
             THEN [s EXCEPT !.status = IF wrrd = 1 THEN 4 ELSE (s.status + 1) % 256,
                            !.ddrSDA = TRUE, !.ack = 1]
             ELSE s
    ELSE IF s.status = 1
    THEN [s EXCEPT !.rdir = b, !.ddrSDA = TRUE, !.ack = 1,
                   !.status = (s.status + 1) % 256]
    ELSE IF s.status = 2
    THEN [s EXCEPT !.registers[s.rdir] = b, !.ddrSDA = TRUE, !.ack = 1,
                   !.status = (s.status + 1) % 256]
    ELSE IF s.status = 4
    THEN [s EXCEPT !.USISR = UsisrOrCnt(s.USISR, 1), !.ddrSDA = FALSE,
                   !.ack = 1, !.status = (s.status + 1) % 256]
    ELSE s

\* Variant: the counter is preset to 14 whether or not ack was set.
BytePass_AlwaysShort(s, b) ==
    LET h == [s EXCEPT !.ddrSCL = TRUE, !.USISR = UsisrResetCounter(s.USISR)]
        d == ByteDispatch(h, b)
        c == [d EXCEPT !.USISR = UsisrOrCnt(d.USISR, 14)]
    IN  [c EXCEPT !.USIDR = 0, !.USISR = UsisrOrFlags(c.USISR)]

\* The else branch of ISR(USI_OVF_vect).
BytePass(s, b) ==
    LET h == [s EXCEPT !.ddrSCL = TRUE, !.USISR = UsisrResetCounter(s.USISR)]
        d == ByteDispatch(h, b)
        c == IF d.ack # 0 THEN [d EXCEPT !.USISR = UsisrOrCnt(d.USISR, 14)] ELSE d
    IN  [c EXCEPT !.USIDR = 0, !.USISR = UsisrOrFlags(c.USISR)]

\* ISR(USI_OVF_vect), entered with the overflow flag set by the hardware and
\* the counter wrapped to zero; b is the content of USIDR on entry and sda
\* the level of the SDA pin.
USI_OVF_vect(s, b, sda) ==
    LET h == [s EXCEPT !.USISR.oif = TRUE, !.USISR.cnt = 0]
        a == IF h.ack # 0 THEN AckPass(h, sda) ELSE BytePass(h, b)
    IN  [a EXCEPT !.ddrSCL = FALSE]

(* ------------------- what a handler pass does, in order ---------------- *)

\* The operations of one pass in program order: "pull" is I2CD |= SCLP,
\* "release" is I2CD &= ~SCLP, "spin" is loop_until_bit_is_clear(I2CPN,SCLP),
\* "sda" a write to the SDA bits of I2CD or I2CP; the others name the
\* variable or register assigned.

\* ISR(USI_START_vect).
StartOps(s) ==
    <<"pull">>
    \o (IF s.status = 2 THEN <<"status">> ELSE <<"USICR", "USIDR">>)
    \o <<"USISR", "release">>

\* if (status == 5) { ... }
ReadAckPollOps(s, sda) ==
    IF s.status # 5 THEN <<>>
    ELSE IF sda = 0 THEN <<"status", "sda", "rdir", "spin">>
    ELSE <<"spin", "status", "rdir", "sda", "sda", "USICR">>

\* Variant: the POST_WRITE_ACK branch waits for SCL as well.
AckDispatchOps_Spins(s) ==
    IF s.status = 3
    THEN <<"pull">>
         \o (IF s.USISR.pf THEN <<"rdir", "status", "USICR">>
             ELSE <<"status", "rdir">>)
         \o <<"sda", "spin">>
    ELSE IF s.status = 4 THEN <<"pull", "USIDR", "sda">>
    ELSE <<"pull", "sda">>

\* if (status == 3) ... else if (status == 4) ... else ...
AckDispatchOps(s) ==
    IF s.status = 3
    THEN <<"pull">>
         \o (IF s.USISR.pf THEN <<"rdir", "status", "USICR">>
             ELSE <<"status", "rdir">>)
         \o <<"sda">>
    ELSE IF s.status = 4 THEN <<"pull", "USIDR", "sda">>
    ELSE <<"pull", "sda">>

\* The if (ack) branch.
AckPassOps(s, sda) ==
    ReadAckPollOps(s, sda) \o AckDispatchOps(ReadAckPoll(s, sda))
    \o <<"ack", "USISR">>

\* The status dispatch of the else branch.
ByteDispatchOps(s, b) ==
    IF s.status = 0
    THEN IF b \div 2 = s.direction THEN <<"status", "sda", "ack">> ELSE <<>>
    ELSE IF s.status = 1 THEN <<"rdir", "sda", "ack", "status">>
    ELSE IF s.status = 2 THEN <<"registers", "sda", "ack", "status">>
    ELSE IF s.status = 4 THEN <<"USISR", "sda", "ack", "status">>
    ELSE <<>>

\* Variant: the clock is pulled low only after the status dispatch.
BytePassOps_LatePull(s, b) ==
    <<"USISR">> \o ByteDispatchOps(s, b) \o <<"pull">>
    \o (IF ByteDispatch(s, b).ack # 0 THEN <<"USISR">> ELSE <<>>)
    \o <<"USIDR", "USISR">>

\* The else branch.
BytePassOps(s, b) ==
    <<"pull", "USISR">> \o ByteDispatchOps(s, b)
    \o (IF ByteDispatch(s, b).ack # 0 THEN <<"USISR">> ELSE <<>>)
    \o <<"USIDR", "USISR">>

\* ISR(USI_OVF_vect).
OverflowOps(s, b, sda) ==
    (IF s.ack # 0 THEN AckPassOps(s, sda) ELSE BytePassOps(s, b))
    \o <<"release">>

\* The index at which the pass reads or writes i2c_slave.registers[rdir],
\* or -1 when it does neither.
OverflowAccess(s, b, sda) ==
    IF s.ack # 0
    THEN LET a == ReadAckPoll(s, sda)
         IN  IF a.status = 4 THEN a.rdir ELSE -1
    ELSE IF s.status = 2 THEN s.rdir ELSE -1

(* ------------------------------ the bus -------------------------------- *)

\* The slave holds SDA low for the whole coming bit time(s): the pin is an
\* output and either the port bit or every bit of the data register is 0.
\* While it does, the master can produce neither a start nor a stop
\* condition, and the pin reads 0.
SdaHeldLow(s) == s.ddrSDA /\ (~s.portSDA \/ s.USIDR = 0)

\* What USIDR can hold when a byte overflow fires: a byte from the master
\* when the slave has released SDA, else the slave's own output shifted
\* back in.
ShiftedIn(s) ==
    IF ~s.ddrSDA THEN InBytes
    ELSE IF s.portSDA THEN {s.USIDR} ELSE {0}

\* Levels bit_is_clear(I2CPN,SDAP) can see on the ACK bit.
SdaLevels(s) == IF SdaHeldLow(s) THEN {0} ELSE {0, 1}

(* -------------------------- scenario observers ------------------------- *)

\* The engine is idle: AWAIT_ADDRESS with the ack flag clear.
Idle(s) == s.status = 0 /\ s.ack = 0

MwOff == [ph |-> "off", P |-> 0, d |-> <<>>, stop |-> FALSE]
MrOff == [ph |-> "off", p |-> 0, acks |-> 0]
MmOff == [ph |-> "off", r |-> 0]

\* Write scenario: start from idle, AddrW, ACK bit, pointer byte P, ACK bit,
\* data bytes d each with its ACK bit; then optionally a stop, a second
\* start, AddrR, ACK bit (first byte loaded), the byte, the master's NACK.
MwStart(s) ==
    IF Idle(s) THEN [ph |-> "S", P |-> 0, d |-> <<>>, stop |-> FALSE]
    ELSE IF mw.ph \in {"Pk", "Dk"} THEN [mw EXCEPT !.ph = "RS"]
    ELSE MwOff

MwStop ==
    IF mw.ph \in {"Pk", "Dk"} /\ ~mw.stop THEN [mw EXCEPT !.stop = TRUE]
    ELSE MwOff

MwOverflow(b, sda) ==
    CASE mw.ph = "S" /\ b = AddrW -> [mw EXCEPT !.ph = "AW"]
      [] mw.ph = "AW" -> [mw EXCEPT !.ph = "AWk"]
      [] mw.ph = "AWk" -> [mw EXCEPT !.ph = "P", !.P = b]
      [] mw.ph = "P" -> [mw EXCEPT !.ph = "Pk"]
      [] mw.ph \in {"Pk", "Dk"} /\ ~mw.stop ->
            [mw EXCEPT !.ph = "D", !.d = Append(mw.d, b)]
      [] mw.ph = "D" -> [mw EXCEPT !.ph = "Dk"]
      [] mw.ph = "RS" /\ b = AddrR -> [mw EXCEPT !.ph = "RA"]
      [] mw.ph = "RA" -> [mw EXCEPT !.ph = "RL"]
      [] mw.ph = "RL" -> [mw EXCEPT !.ph = "RB"]
      [] mw.ph = "RB" /\ sda = 1 -> [mw EXCEPT !.ph = "RN"]
      [] OTHER -> MwOff

\* Read scenario: a start arriving between transactions (status 0 or 2, ack
\* clear), AddrR (pointer p at that moment), ACK bit (byte loaded), then per
\* byte: the byte, and the master's ACK (another byte loaded) or NACK.
MrStart(s) ==
    IF s.status \in {0, 2} /\ s.ack = 0 THEN [ph |-> "S", p |-> 0, acks |-> 0]
    ELSE MrOff

MrOverflow(s, b, sda) ==
    CASE mr.ph = "S" /\ b = AddrR -> [ph |-> "A", p |-> s.rdir, acks |-> 0]
      [] mr.ph = "A" -> [mr EXCEPT !.ph = "L"]
      [] mr.ph = "L" -> [mr EXCEPT !.ph = "B"]
      [] mr.ph = "B" /\ sda = 0 -> [mr EXCEPT !.ph = "L", !.acks = mr.acks + 1]
      [] mr.ph = "B" /\ sda = 1 -> [mr EXCEPT !.ph = "N"]
      [] OTHER -> MrOff

\* Mismatch scenario: start from idle (pointer r), an address byte whose
\* 7-bit address is not SlaveAddress, then any further bytes.
MmStart(s) == IF Idle(s) THEN [ph |-> "S", r |-> s.rdir] ELSE MmOff

MmOverflow(b) ==
    CASE mm.ph = "S" /\ b \div 2 # SlaveAddress -> [mm EXCEPT !.ph = "X"]
      [] mm.ph = "X" -> mm
      [] OTHER -> MmOff

\* Stop-during-write scenario: the ACK-bit pass of a data byte (status 3)
\* finds the stop flag set ("T"); then the next start ("S").  "V" records
\* an overflow pass that ran in between.
MsStart == IF ms = "T" THEN "S" ELSE IF ms = "V" THEN "V" ELSE "off"
MsStop == IF ms \in {"T", "V"} THEN ms ELSE "off"
MsOverflow(s) ==
    IF ms \in {"T", "V"} THEN "V"
    ELSE IF s.ack # 0 /\ s.status = 3 /\ s.USISR.pf THEN "T"
    ELSE "off"

\* What is kept of a pass: status, ack and stop flag on entry, the SDA level
\* sampled (-1 when the pass does not sample it: every start pass, and the
\* overflow passes other than the one entered in status 5 with ack set), whether the byte decoded
\* as an address matched ("none" when the pass decodes no address), the
\* register index used and the operations in order.
NoPass ==
    [status |-> 0, ack |-> 0, pf |-> FALSE, sda |-> -1, addr |-> "none",
     acc |-> -1, log |-> <<>>]

StartPass(s) ==
    [status |-> s.status, ack |-> s.ack, pf |-> s.USISR.pf, sda |-> -1,
     addr |-> "none", acc |-> -1, log |-> StartOps(s)]

OverflowPass(s, b, sda) ==
    [status |-> s.status, ack |-> s.ack, pf |-> s.USISR.pf,
     sda |-> IF s.ack # 0 /\ s.status = 5 THEN sda ELSE -1,
     addr |-> IF s.ack = 0 /\ s.status = 0
              THEN (IF b \div 2 = s.direction THEN "match" ELSE "mismatch")
              ELSE "none",
     acc |-> OverflowAccess(s, b, sda), log |-> OverflowOps(s, b, sda)]

(* ------------------------------ bus events ----------------------------- *)

\* No typed-accessor call has been made.
NoCall == [fn |-> "none", ty |-> "none", dir |-> 0, val |-> 0]

\* The foreground is between calls.
NoAccess ==
    [fn |-> "none", ty |-> "none", dir |-> 0, todo |-> {}, nev0 |-> 0,
     x |-> <<>>]

\* No handler is waiting for SCL.
NoSpin == [on |-> FALSE, b |-> 0, sda |-> 0]

Init ==
    /\ \E regs \in InitRegisters :
         LET n == usi_i2c_slave(SlaveAddress, regs)
         IN  /\ status = n.status
             /\ rdir = n.rdir
             /\ ack = n.ack
             /\ registers = n.registers
             /\ direction = n.direction
             /\ USIDR = n.USIDR
             /\ USISR = n.USISR
             /\ USIOIE = n.USIOIE
             /\ ddrSDA = n.ddrSDA
             /\ ddrSCL = n.ddrSCL
             /\ portSDA = n.portSDA
             /\ out = n.out
             /\ base = regs
    /\ nev = 0
    /\ ev = "none"
    /\ mw = MwOff
    /\ mr = MrOff
    /\ mm = MmOff
    /\ ms = "off"
    /\ pass = NoPass
    /\ ncall = 0
    /\ call = NoCall
    /\ prevcall = NoCall
    /\ fg = NoAccess
    /\ spin = NoSpin

\* The start interrupt (USISIE, enabled by usi_i2c_slave and never
\* disabled) runs ISR(USI_START_vect).
StartStep ==
    /\ nev < MaxEvents
    /\ Becomes(USI_START_vect(Cur))
    /\ nev' = nev + 1
    /\ ev' = "S"
    /\ base' = IF Idle(Cur) THEN registers ELSE base
    /\ mw' = MwStart(Cur)
    /\ mr' = MrStart(Cur)
    /\ mm' = MmStart(Cur)
    /\ ms' = MsStart
    /\ pass' = StartPass(Cur)

\* The hardware sets USIPF; no handler runs.
StopStep ==
    /\ nev < MaxEvents
    /\ Becomes([Cur EXCEPT !.USISR.pf = TRUE])
    /\ nev' = nev + 1
    /\ ev' = "P"
    /\ mw' = MwStop
    /\ mr' = MrOff
    /\ mm' = MmOff
    /\ ms' = MsStop
    /\ UNCHANGED <<base, pass>>

\* ISR(USI_OVF_vect) runs with b in USIDR and sda on the SDA pin.
OverflowStep(b, sda) ==
    /\ Becomes(USI_OVF_vect(Cur, b, sda))
    /\ mw' = MwOverflow(b, sda)
    /\ mr' = MrOverflow(Cur, b, sda)
    /\ mm' = MmOverflow(b)
    /\ ms' = MsOverflow(Cur)
    /\ pass' = OverflowPass(Cur, b, sda)
    /\ ev' = IF ack # 0 THEN "A" ELSE "B"
    /\ UNCHANGED base

\* A start condition on the bus.
Start ==
    /\ ~SdaHeldLow(Cur)
    /\ StartStep
    /\ UNCHANGED apiobs

\* A stop condition on the bus.
Stop ==
    /\ ~SdaHeldLow(Cur)
    /\ StopStep
    /\ UNCHANGED apiobs

\* The bit counter overflows: with USIOIE set, ISR(USI_OVF_vect) runs.
Overflow ==
    /\ nev < MaxEvents
    /\ USIOIE
    /\ \E b \in ShiftedIn(Cur), sda \in SdaLevels(Cur) : OverflowStep(b, sda)
    /\ nev' = nev + 1
    /\ UNCHANGED apiobs

Next == Start \/ Stop \/ Overflow

Spec == Init /\ [][Next]_vars

\* The same engine on a bus where the start and stop detectors may fire at
\* any moment, whatever the slave does to SDA.
StartAny == nev < MaxFreeEvents /\ StartStep /\ UNCHANGED apiobs
StopAny == nev < MaxFreeEvents /\ StopStep /\ UNCHANGED apiobs
OverflowAny == nev < MaxFreeEvents /\ Overflow
NextFree == StartAny \/ StopAny \/ OverflowAny
SpecFree == Init /\ [][NextFree]_vars

\* The pass contains a loop_until_bit_is_clear(I2CPN,SCLP).
HasSpin(log) == \E i \in 1 .. Len(log) : log[i] = "spin"

\* The bus followed into the wait of a handler: a pass that contains a spin
\* stops there with interrupts disabled (PollEnter, the SDA level already
\* sampled) and runs to its end when the master lowers SCL (SclLow). The
\* assignments the pass makes before the spin are seen by no other code
\* while it waits and are applied with the rest of the pass.
SpinStart ==
    /\ ~spin.on
    /\ nev < MaxSpinEvents
    /\ ~SdaHeldLow(Cur)
    /\ StartStep
    /\ UNCHANGED apiobs

SpinStop ==
    /\ ~spin.on
    /\ nev < MaxSpinEvents
    /\ ~SdaHeldLow(Cur)
    /\ StopStep
    /\ UNCHANGED apiobs

SpinOverflow ==
    /\ ~spin.on
    /\ nev < MaxSpinEvents
    /\ USIOIE
    /\ \E b \in ShiftedIn(Cur), sda \in SdaLevels(Cur) :
          /\ ~HasSpin(OverflowOps(Cur, b, sda))
          /\ OverflowStep(b, sda)
    /\ nev' = nev + 1
    /\ UNCHANGED apiobs

PollEnter ==
    /\ ~spin.on
    /\ nev < MaxSpinEvents
    /\ USIOIE
    /\ \E b \in ShiftedIn(Cur), sda \in SdaLevels(Cur) :
          /\ HasSpin(OverflowOps(Cur, b, sda))
          /\ spin' = [on |-> TRUE, b |-> b, sda |-> sda]
    /\ nev' = nev + 1
    /\ UNCHANGED <<prog, ev, base, mw, mr, mm, ms, pass, ncall, call,
                   prevcall, fg>>

\* The master lowers SCL: the waiting pass runs to its end.
SclLow ==
    /\ spin.on
    /\ OverflowStep(spin.b, spin.sda)
    /\ spin' = NoSpin
    /\ UNCHANGED <<nev, ncall, call, prevcall, fg>>

NextSpin == SpinStart \/ SpinStop \/ SpinOverflow \/ PollEnter \/ SclLow

\* The master's clock eventually goes low.
SpecSpin == Init /\ [][NextSpin]_vars /\ WF_vars(SclLow)

TypeOK ==
    /\ status \in 0 .. 5
    /\ rdir \in Byte
    /\ ack \in {0, 1}
    /\ USIDR \in Byte
    /\ USISR.cnt \in 0 .. 15

(* ---------------------- properties of the bus engine ------------------- *)

\* The register file a write of data bytes d at pointer P leaves, starting
\* from register file b: byte j of d lands at (P + j) mod 256.
Written(b, P, d) ==
    [i \in Byte |->
        IF \E j \in 1 .. Len(d) : (P + j - 1) % 256 = i
        THEN d[CHOOSE j \in 1 .. Len(d) : (P + j - 1) % 256 = i]
        ELSE b[i]]

\* C1. Write transaction: from idle, after start, the matching write address,
\* its ACK bit, pointer byte P, its ACK bit and k >= 1 data bytes each with
\* its ACK bit, register (P + i) mod 256 holds data byte i and every other
\* register is as it was.
C1_WriteTransaction ==
    (mw.ph = "Dk" /\ ~mw.stop) => registers = Written(base, mw.P, mw.d)

C1_Witness ==
    /\ mw.ph = "Dk"
    /\ ~mw.stop
    /\ mw.P = 255
    /\ Len(mw.d) = 2
    /\ mw.d[1] # mw.d[2]
    /\ registers # base

\* C2 as stated. After a write of one data byte D at pointer P ended by a
\* stop, a read transaction emits D first, and after the master's NACK the
\* pointer is P.
C2_ReadBackAsStated ==
    (Len(mw.d) = 1 /\ mw.stop) =>
        /\ mw.ph = "RL" => (registers[mw.P] = mw.d[1] /\ out = <<mw.d[1]>>
                             /\ USIDR = mw.d[1])
        /\ mw.ph = "RN" => rdir = mw.P

\* C2 amended. After that write registers[P] holds D, but the pointer has
\* moved on: the read transaction emits registers[(P + 1) mod 256] first,
\* and after the master's NACK the pointer is 0.
C2_ReadBackNextRegister ==
    (Len(mw.d) = 1 /\ mw.stop) =>
        /\ mw.ph = "RL" => (/\ registers[mw.P] = mw.d[1]
                            /\ out = <<registers[(mw.P + 1) % 256]>>
                            /\ USIDR = registers[(mw.P + 1) % 256])
        /\ mw.ph = "RN" => rdir = 0

C2_Witness ==
    /\ mw.ph = "RN"
    /\ Len(mw.d) = 1
    /\ mw.stop
    /\ mw.P = 3
    /\ registers[3] # registers[4]

\* C3. Multi-byte read: in a read transaction begun with the pointer at p,
\* the bytes loaded into the shift register are registers[p], registers[p+1],
\* ... (indices mod 256), one for the address ACK and one more per master
\* ACK, and the pointer has advanced by one per master ACK.
C3_MultiByteRead ==
    mr.ph \in {"L", "B"} =>
        /\ Len(out) = mr.acks + 1
        /\ \A j \in 1 .. Len(out) : out[j] = registers[(mr.p + j - 1) % 256]
        /\ rdir = (mr.p + mr.acks) % 256
        /\ mr.ph = "L" => USIDR = registers[rdir]

C3_Witness ==
    /\ mr.ph = "L"
    /\ mr.p = 255
    /\ mr.acks = 2
    /\ registers[255] # registers[0]

\* C4 as stated. A NACK on the n-th byte of a read begun at pointer P ends
\* the transaction after n bytes and leaves the pointer at P + n - 1.
C4_NackPointerAsStated ==
    mr.ph = "N" =>
        /\ Len(out) = mr.acks + 1
        /\ status = 0
        /\ rdir = (mr.p + mr.acks) % 256

\* C4 amended. A NACK on the n-th byte ends the transaction after n bytes
\* (engine back in AWAIT_ADDRESS, overflow interrupt off) and the pointer
\* is reset to 0.
C4_NackResetsPointer ==
    mr.ph = "N" =>
        /\ Len(out) = mr.acks + 1
        /\ status = 0
        /\ ~USIOIE
        /\ rdir = 0

C4_Witness ==
    /\ mr.ph = "N"
    /\ mr.acks = 1
    /\ mr.p = 3

\* C5. Pointer persists into a following read: after a write transaction of
\* only the address and pointer byte P, a start (repeated, or after a stop)
\* and the matching read address make the slave emit registers[P] first.
C5_PointerThenRead ==
    (mw.ph = "RL" /\ Len(mw.d) = 0) =>
        (out = <<registers[mw.P]>> /\ USIDR = registers[mw.P])

C5_Witness ==
    /\ mw.ph = "RL"
    /\ Len(mw.d) = 0
    /\ ~mw.stop
    /\ mw.P = 3
    /\ registers[3] # registers[0]

\* C6 as stated. After a non-matching address byte, whatever bytes follow
\* until the next start, status, pointer, ack flag and register file are
\* unchanged and the slave does not drive SDA.
C6_MismatchIgnored ==
    mm.ph = "X" =>
        /\ status = 0
        /\ ack = 0
        /\ rdir = mm.r
        /\ registers = base
        /\ ~ddrSDA

\* C7 as stated. After the start handler has run, in whatever state, the
\* engine is in AWAIT_ADDRESS.
C7_StartRestartsDecoding == ev = "S" => status = 0

\* C8. The start handler leaves the pointer and every register unchanged.
C8_StartKeepsPointer ==
    [][(ev' = "S" /\ nev' = nev + 1) =>
          (rdir' = rdir /\ registers' = registers)]_vars

C8_Witness ==
    /\ ev = "S"
    /\ rdir = 4
    /\ registers # base

(* --------------------------- typed accessors --------------------------- *)

\* Values are held as bit patterns while the code computes on them.  A
\* 16-bit pattern is a number in 0 .. 65535; a 32-bit pattern is the pair of
\* its two 16-bit halves <<high, low>>, as the whole does not fit TLC's
\* 32-bit signed integers.  The AVR is little-endian and has a 16-bit int.

ToBits8(v) == v % 256
FromBits8(x) == IF x >= 128 THEN x - 256 ELSE x
ToBits16(v) == v % 65536
FromBits16(x) == IF x >= 32768 THEN x - 65536 ELSE x
ToBits32(v) == <<(v \div 65536) % 65536, v % 65536>>
FromBits32(x) ==
    IF x[1] >= 32768 THEN (x[1] - 65536) * 65536 + x[2] ELSE x[1] * 65536 + x[2]

And32(x, m) == <<BitAnd(x[1], m[1]), BitAnd(x[2], m[2])>>
Or32(x, y) == <<BitOr(x[1], y[1]), BitOr(x[2], y[2])>>

\* x << k and x >> k on 32 bits, for 0 <= k < 32.
Shl32(x, k) ==
    LET y == IF k >= 16 THEN <<x[2], 0>> ELSE x
        r == IF k >= 16 THEN k - 16 ELSE k
    IN  <<((y[1] * 2^r) % 65536) + ((y[2] * 2^r) \div 65536), (y[2] * 2^r) % 65536>>

Shr32(x, k) ==
    LET y == IF k >= 16 THEN <<0, x[1]>> ELSE x
        r == IF k >= 16 THEN k - 16 ELSE k
    IN  <<y[1] \div 2^r, (y[2] \div 2^r) + ((y[1] % 2^r) * 2^(16 - r))>>

\* ((data&0xFF)<<8)|((data&0xFF00)>>8) on a 16-bit pattern.  For int16_t the
\* left operand is a signed 16-bit int and the shift can overflow it; avr-gcc
\* keeps the low 16 bits.
Swap16(x) ==
    BitOr((BitAnd(x, 255) * 256) % 65536, BitAnd(x, 65280) \div 256)

\* Variant: only the outer two bytes change places.
Swap32_OuterOnly(x) ==
    Or32(Or32(Shl32(And32(x, <<0, 255>>), 24), Shr32(And32(x, <<65280, 0>>), 24)),
         Or32(And32(x, <<0, 65280>>), And32(x, <<255, 0>>)))

\* ((data&0x000000FF)<<24)|((data&0xFF000000)>>24)|
\* ((data&0x0000FF00)<< 8)|((data&0x00FF0000)>> 8) on a 32-bit pattern.
Swap32(x) ==
    Or32(Or32(Shl32(And32(x, <<0, 255>>), 24), Shr32(And32(x, <<65280, 0>>), 24)),
         Or32(Shl32(And32(x, <<0, 65280>>), 8), Shr32(And32(x, <<255, 0>>), 8)))

\* Byte k (0 = least significant) of a 16-bit and of a 32-bit pattern.
Byte16(x, k) == (x \div 256^k) % 256
Byte32(x, k) == IF k >= 2 THEN Byte16(x[1], k - 2) ELSE Byte16(x[2], k)

\* *(uintN_t*)(i2c_slave.registers + dir) = x: the AVR stores the least
\* significant byte at the lowest address.
Store8(regs, dir, x) == [regs EXCEPT ![dir] = x]
Store16(regs, dir, x) ==
    [regs EXCEPT ![dir] = Byte16(x, 0), ![dir + 1] = Byte16(x, 1)]
Store32(regs, dir, x) ==
    [regs EXCEPT ![dir] = Byte32(x, 0), ![dir + 1] = Byte32(x, 1),
                 ![dir + 2] = Byte32(x, 2), ![dir + 3] = Byte32(x, 3)]

\* *(uintN_t*)(i2c_slave.registers + dir) read back.
Load8(regs, dir) == regs[dir]
Load16(regs, dir) == regs[dir] + 256 * regs[dir + 1]
Load32(regs, dir) ==
    <<regs[dir + 2] + 256 * regs[dir + 3], regs[dir] + 256 * regs[dir + 1]>>

\* The twelve accessors: the register file a save leaves, the value a read
\* returns.  uint32_t values are written as <<high half, low half>>.
usi_i2c_save_registers_u8(regs, data, dir) == Store8(regs, dir, data)
usi_i2c_save_registers_u16(regs, data, dir) == Store16(regs, dir, Swap16(data))
usi_i2c_save_registers_u32(regs, data, dir) == Store32(regs, dir, Swap32(data))
usi_i2c_save_registers_s8(regs, data, dir) == Store8(regs, dir, ToBits8(data))
usi_i2c_save_registers_s16(regs, data, dir) ==
    Store16(regs, dir, Swap16(ToBits16(data)))
usi_i2c_save_registers_s32(regs, data, dir) ==
    Store32(regs, dir, Swap32(ToBits32(data)))

usi_i2c_read_registers_u8(regs, dir) == Load8(regs, dir)
usi_i2c_read_registers_u16(regs, dir) == Load16(regs, dir)
usi_i2c_read_registers_u32(regs, dir) == Load32(regs, dir)
usi_i2c_read_registers_s8(regs, dir) == FromBits8(Load8(regs, dir))
usi_i2c_read_registers_s16(regs, dir) == FromBits16(Load16(regs, dir))
usi_i2c_read_registers_s32(regs, dir) == FromBits32(Load32(regs, dir))

\* Argument values tried for each type, and indices for each width in bytes
\* (the second is the highest index at which the access stays in range).
U8Vals == {0, 171, 255}
S8Vals == {-128, -2, 127}
U16Vals == {0, 4660, 65280, 32769}
S16Vals == {-32768, -2, 4660}
U32Vals == {<<0, 0>>, <<4660, 22136>>, <<65535, 65280>>, <<32768, 1>>}
S32Vals == {-2147483647 - 1, -2, 305419896}
Types == {"u8", "u16", "u32", "s8", "s16", "s32"}
Width(ty) == IF ty \in {"u8", "s8"} THEN 1 ELSE IF ty \in {"u16", "s16"} THEN 2 ELSE 4
ValsOf(ty) ==
    CASE ty = "u8" -> U8Vals [] ty = "u16" -> U16Vals [] ty = "u32" -> U32Vals
      [] ty = "s8" -> S8Vals [] ty = "s16" -> S16Vals [] ty = "s32" -> S32Vals
Dirs(n) == {5, 256 - n}

\* One foreground call of a save function, with the bus quiet.
Saved(ty, regs, data, dir) ==
    /\ ncall < MaxCalls
    /\ registers' = regs
    /\ ncall' = ncall + 1
    /\ prevcall' = call
    /\ call' = [fn |-> "save", ty |-> ty, dir |-> dir, val |-> data]
    /\ UNCHANGED <<status, rdir, ack, direction, USIDR, USISR, USIOIE,
                   ddrSDA, ddrSCL, portSDA, out, busobs, fg, spin>>

\* One foreground call of a read function, with the bus quiet.
Returned(ty, data, dir) ==
    /\ ncall < MaxCalls
    /\ ncall' = ncall + 1
    /\ prevcall' = call
    /\ call' = [fn |-> "read", ty |-> ty, dir |-> dir, val |-> data]
    /\ UNCHANGED <<prog, busobs, fg, spin>>

SaveU8 == \E data \in U8Vals, dir \in Dirs(1) :
    Saved("u8", usi_i2c_save_registers_u8(registers, data, dir), data, dir)
SaveU16 == \E data \in U16Vals, dir \in Dirs(2) :
    Saved("u16", usi_i2c_save_registers_u16(registers, data, dir), data, dir)
SaveU32 == \E data \in U32Vals, dir \in Dirs(4) :
    Saved("u32", usi_i2c_save_registers_u32(registers, data, dir), data, dir)
SaveS8 == \E data \in S8Vals, dir \in Dirs(1) :
    Saved("s8", usi_i2c_save_registers_s8(registers, data, dir), data, dir)
SaveS16 == \E data \in S16Vals, dir \in Dirs(2) :
    Saved("s16", usi_i2c_save_registers_s16(registers, data, dir), data, dir)
SaveS32 == \E data \in S32Vals, dir \in Dirs(4) :
    Saved("s32", usi_i2c_save_registers_s32(registers, data, dir), data, dir)

ReadU8 == \E dir \in Dirs(1) :
    Returned("u8", usi_i2c_read_registers_u8(registers, dir), dir)
ReadU16 == \E dir \in Dirs(2) :
    Returned("u16", usi_i2c_read_registers_u16(registers, dir), dir)
ReadU32 == \E dir \in Dirs(4) :
    Returned("u32", usi_i2c_read_registers_u32(registers, dir), dir)
ReadS8 == \E dir \in Dirs(1) :
    Returned("s8", usi_i2c_read_registers_s8(registers, dir), dir)
ReadS16 == \E dir \in Dirs(2) :
    Returned("s16", usi_i2c_read_registers_s16(registers, dir), dir)
ReadS32 == \E dir \in Dirs(4) :
    Returned("s32", usi_i2c_read_registers_s32(registers, dir), dir)

NextApi ==
    \/ SaveU8 \/ SaveU16 \/ SaveU32 \/ SaveS8 \/ SaveS16 \/ SaveS32
    \/ ReadU8 \/ ReadU16 \/ ReadU32 \/ ReadS8 \/ ReadS16 \/ ReadS32

\* The foreground alone: typed accessors called with no bus event between.
SpecApi == Init /\ [][NextApi]_vars

(* -------------------- properties of the typed accessors ---------------- *)

\* C9 as stated. A typed read right after the typed save of v at the same
\* index and of the same type returns v.
C9_RoundTrip ==
    (call.fn = "read" /\ prevcall.fn = "save" /\ call.ty = prevcall.ty
        /\ call.dir = prevcall.dir) => call.val = prevcall.val

\* The bit pattern of a saved argument, by its type.
PatternOf(c) ==
    CASE c.ty = "s8" -> ToBits8(c.val) [] c.ty = "s16" -> ToBits16(c.val)
      [] c.ty = "s32" -> ToBits32(c.val) [] OTHER -> c.val

\* C10. Wire byte order of typed saves: a 16-bit save of v at index i leaves
\* the high byte of v in registers[i] and the low byte in registers[i+1]; a
\* 32-bit save leaves the four bytes of v in registers[i..i+3], most
\* significant first.
C10_BigEndianSave ==
    call.fn = "save" =>
        /\ Width(call.ty) = 2 =>
             \A k \in 0 .. 1 :
                registers[call.dir + k] = Byte16(PatternOf(call), 1 - k)
        /\ Width(call.ty) = 4 =>
             \A k \in 0 .. 3 :
                registers[call.dir + k] = Byte32(PatternOf(call), 3 - k)

C10_Witness ==
    /\ prevcall = [fn |-> "save", ty |-> "s16", dir |-> 254, val |-> -2]
    /\ call = [fn |-> "save", ty |-> "u32", dir |-> 5, val |-> <<4660, 22136>>]
    /\ registers[5] = 18 /\ registers[6] = 52
    /\ registers[7] = 86 /\ registers[8] = 120
    /\ registers[254] = 255 /\ registers[255] = 254

(* ------------------- properties of the handler passes ------------------ *)

\* The assignments C12 speaks of.
Updates == {"status", "rdir", "ack", "registers", "USIDR"}

\* The clock is pulled low before the first update of the pass.
PullFirst(log) ==
    \A i \in 1 .. Len(log) :
        log[i] \in Updates => \E j \in 1 .. i - 1 : log[j] = "pull"

\* The clock is released once, as the last operation of the pass.
ReleaseLast(log) ==
    /\ log[Len(log)] = "release"
    /\ \A i \in 1 .. Len(log) - 1 : log[i] # "release"

\* C12 as stated. In every start and overflow pass the clock line is pulled
\* low before any update of status, pointer, ack flag, register file or
\* shift register, and released only after the last one.
C12_ClockStretchAsStated ==
    pass.log # <<>> => (PullFirst(pass.log) /\ ReleaseLast(pass.log))

\* C12 amended. In every pass the clock line is released only after the last
\* update, and it is pulled low before the first update in every pass but
\* the ACK-bit pass in READ_ACK_POLL; that pass waits for the master to
\* lower the clock and assigns status and pointer before it pulls the line
\* low, the shift register and the ack flag after.
C12_ClockStretch ==
    pass.log # <<>> =>
        /\ ReleaseLast(pass.log)
        /\ \E j \in 1 .. Len(pass.log) : pass.log[j] = "pull"
        /\ IF pass.ack # 0 /\ pass.status = 5
           THEN \A i \in 1 .. Len(pass.log) :
                   pass.log[i] \in {"ack", "USIDR", "registers"} =>
                       \E j \in 1 .. i - 1 : pass.log[j] = "pull"
           ELSE PullFirst(pass.log)

C12_Witness ==
    /\ ev = "A"
    /\ pass.status = 5
    /\ pass.sda = 0
    /\ ~PullFirst(pass.log)
    /\ status = 4

\* C14. NACK termination: the ACK-bit pass in READ_ACK_POLL that samples SDA
\* high ends in AWAIT_ADDRESS with the ack flag clear, the overflow
\* interrupt disabled and neither SDA nor SCL driven by the slave.
C14_NackTermination ==
    (ev = "A" /\ pass.status = 5 /\ pass.sda = 1) =>
        /\ status = 0
        /\ ack = 0
        /\ ~USIOIE
        /\ ~ddrSDA
        /\ ~ddrSCL

C14_Witness ==
    /\ ev = "A"
    /\ pass.status = 5
    /\ pass.ack # 0
    /\ pass.sda = 1
    /\ Len(out) = 2

\* C15. ACK-bit counter programming: at the end of every overflow pass the
\* counter is 14 or 15 exactly when the ack flag is set and 0 exactly when
\* it is clear, and it is 15 exactly when the pass moved the engine from
\* READ_DATA_PRE (4) to READ_ACK_POLL (5).
C15_CounterPreset ==
    ev \in {"A", "B"} =>
        /\ (ack # 0) <=> (USISR.cnt \in {14, 15})
        /\ (ack = 0) <=> (USISR.cnt = 0)
        /\ (USISR.cnt = 15) <=> (pass.status = 4 /\ status = 5)

C15_Witness ==
    /\ ev = "B"
    /\ pass.status = 4
    /\ status = 5
    /\ USISR.cnt = 15
    /\ ack # 0

\* C16 as stated. Every overflow pass inverts the ack flag.
C16_AckTogglesAsStated ==
    ev \in {"A", "B"} => ((pass.ack # 0) <=> (ack = 0))

\* C16 amended. A pass entered with ack set leaves it clear; a pass entered
\* with ack clear leaves it set, except the AWAIT_ADDRESS pass of a byte
\* whose address does not match, which leaves it clear.
C16_AckToggles ==
    ev \in {"A", "B"} =>
        /\ pass.ack # 0 => ack = 0
        /\ pass.ack = 0 => ((ack = 0) <=> (pass.addr = "mismatch"))

C16_Witness ==
    /\ ev = "B"
    /\ pass.ack = 0
    /\ pass.addr = "mismatch"
    /\ ack = 0
    /\ nev > 3

\* The capacity N of i2c_slave.registers, when the 8-bit pointer can run
\* past it: at most 255.
RegCapacity == 255

\* C17 as stated. Whenever the overflow handler reads or writes
\* registers[rdir], the pointer is within [0, N).
C17_PointerInRange == pass.acc # -1 => pass.acc < RegCapacity

\* C19. Between handler passes status is one of 0..5, and in status 3 and 5
\* the ack flag is set.
C19_StatusAck ==
    /\ status \in 0 .. 5
    /\ status \in {3, 5} => ack # 0

C19_Witness ==
    /\ ev = "S"
    /\ status = 5
    /\ ack # 0
    /\ pass.status = 5

\* C20. Whenever the overflow interrupt is disabled between passes the
\* engine is in status 0 with ack clear; so after every start pass it is
\* enabled, also after the status == 2 branch, which does not enable it.
C20_OverflowEnabled ==
    /\ ~USIOIE => (status = 0 /\ ack = 0)
    /\ ev = "S" => USIOIE

C20_Witness ==
    /\ ev = "S"
    /\ pass.status = 2
    /\ status = 0
    /\ USIOIE

\* C13. Stop in POST_WRITE_ACK: the ACK-bit pass in status 3 that finds the
\* stop flag set leaves the engine in AWAIT_ADDRESS with the overflow
\* interrupt disabled; no overflow pass runs until the next start, whose
\* handler enables the interrupt again.
C13_StopInPostWriteAck ==
    /\ ms = "T" => (status = 0 /\ ~USIOIE)
    /\ ms # "V"
    /\ ms = "S" => USIOIE

C13_Witness ==
    /\ ms = "S"
    /\ ev = "S"
    /\ USIOIE

\* C18. Handler termination: the only wait in any handler is the spin on
\* SCL in the ACK-bit pass of READ_ACK_POLL (status 5, ack set); no start
\* pass and no other overflow pass waits, and the waiting pass ends once
\* the master lowers SCL.
C18_HandlerTermination ==
    /\ [](spin.on => (status = 5 /\ ack # 0))
    /\ [](pass.log # <<>> => (HasSpin(pass.log) <=> pass.sda # -1))
    /\ (spin.on ~> ~spin.on)

C18_Witness ==
    /\ spin.on
    /\ spin.sda = 1
    /\ status = 5
    /\ ack # 0
    /\ nev = MaxSpinEvents

(* ------------- typed accessors interrupted by the handlers ------------- *)

\* The 8-bit AVR stores and loads a uint16_t or uint32_t one byte at a
\* time; usi_i2c_slave has executed sei() and no accessor disables
\* interrupts, so a handler pass can run between two of these byte accesses.
\* The signed accessors run the same stores and loads as the unsigned ones.
FgTypes == {"u16", "u32"}
FgDirs == {0, 2}
FgVals(ty) == IF ty = "u16" THEN {4660} ELSE {<<4660, 22136>>}

\* The bytes *registers = <swapped data> stores, lowest address first.
SaveBytes(ty, data) ==
    IF ty = "u16"
    THEN <<Byte16(Swap16(data), 0), Byte16(Swap16(data), 1)>>
    ELSE <<Byte32(Swap32(data), 0), Byte32(Swap32(data), 1),
           Byte32(Swap32(data), 2), Byte32(Swap32(data), 3)>>

\* The foreground enters an accessor: all its byte accesses are pending.
\* x holds the bytes to store, or the bytes loaded so far (-1: not yet).
FgBegin ==
    /\ fg.todo = {}
    /\ ncall < MaxFgCalls
    /\ \E fn \in {"save", "read"}, ty \in FgTypes, dir \in FgDirs :
         \E data \in FgVals(ty) :
            fg' = [fn |-> fn, ty |-> ty, dir |-> dir,
                   todo |-> 0 .. Width(ty) - 1, nev0 |-> nev,
                   x |-> IF fn = "save" THEN SaveBytes(ty, data)
                         ELSE [k \in 1 .. Width(ty) |-> -1]]
    /\ ncall' = ncall + 1
    /\ UNCHANGED <<prog, busobs, call, prevcall, spin>>

\* One byte store or byte load of the accessor in progress; the order of
\* the byte accesses is the compiler's.
FgStep ==
    /\ fg.todo # {}
    /\ \E k \in fg.todo :
         /\ registers' = IF fg.fn = "save"
                         THEN [registers EXCEPT ![fg.dir + k] = fg.x[k + 1]]
                         ELSE registers
         /\ fg' = [fg EXCEPT !.todo = @ \ {k}, !.nev0 = nev,
                             !.x = IF fg.fn = "save" THEN @
                                   ELSE [@ EXCEPT ![k + 1] = registers[fg.dir + k]]]
    /\ UNCHANGED <<status, rdir, ack, direction, USIDR, USISR, USIOIE,
                   ddrSDA, ddrSCL, portSDA, out, busobs, ncall, call,
                   prevcall, spin>>

FgStart ==
    /\ nev < MaxFgEvents
    /\ ~SdaHeldLow(Cur)
    /\ StartStep
    /\ UNCHANGED apiobs

FgStop ==
    /\ nev < MaxFgEvents
    /\ ~SdaHeldLow(Cur)
    /\ StopStep
    /\ UNCHANGED apiobs

FgOverflow == nev < MaxFgEvents /\ Overflow

NextFg == FgBegin \/ FgStep \/ FgStart \/ FgStop \/ FgOverflow

SpecFg == Init /\ [][NextFg]_vars

\* Some but not all byte accesses of the accessor in progress are done.
Partial(f) == f.todo # {} /\ f.todo # 0 .. Width(f.ty) - 1

\* C11 as stated. Atomicity of the multi-byte accessors: no start or
\* overflow pass runs between the byte stores (or byte loads) of one 16- or
\* 32-bit save (or read): while an access is partly done, no bus event has
\* been handled since its last byte access.
C11_AccessAtomic == Partial(fg) => nev = fg.nev0

====
